---------------------------- MODULE Spec2Model ----------------------------
(***************************************************************************)
(* A model of the chat-template renderer: the token classifier             *)
(* (components/image_renderer.py), the message normalizer and the template *)
(* renderer (components/template_renderer.py, components/prompt.py).       *)
(*                                                                         *)
(* Strings that the code inspects character by character (rule patterns,   *)
(* generated text, JSON argument strings) are sequences of one-character   *)
(* strings.  Positions in a text are 0-based offsets, as in Python.        *)
(***************************************************************************)
EXTENDS Integers, Sequences, FiniteSets, TLC

VARIABLES
    selected_model,   \* st.session_state.selected_model
    token_patterns,   \* MODELS[selected_model].token_patterns, a list of (pattern, key)
    text,             \* the argument of tokenize_with_colors
    result,           \* the list of (text, color_key) it returned
    cpc,              \* position of the classifier call: "start" or "done"
    heap,             \* the Python objects (dicts and lists) alive, by address
    messages,         \* st.session_state.messages, a reference to a list
    tools,            \* st.session_state.tools
    include_tools,    \* st.session_state.include_tools
    enable_thinking,  \* st.session_state.enable_thinking
    add_generation_prompt,  \* st.session_state.add_generation_prompt
    template_state,   \* what chat_templates/ holds for the selected model's template_file
    rpc,              \* position of the renderer call: "start" or "done"
    call,             \* the function called: generate_prompt, render_template, prepare_messages
    extra_vars,       \* the **extra_vars the call of render_template was given
    outcome,          \* how the call ended: a returned value or a raised exception
    context,          \* the context render_template built, None if it built none
    prepared,         \* what prepare_messages returned, None if it did not return
    markup,           \* the string highlight_prompt returned
    hpc,              \* position of the highlighter call: "start" or "done"
    transformers,     \* whether the transformers library can be imported
    tokenizer_cache,  \* what st.cache_resource holds for load_tokenizer, by tokenizer id
    loader_runs,      \* how often the body of load_tokenizer was entered, by tokenizer id
    count_outcome,    \* how the last call of count_tokens ended
    edited_prompt,    \* st.session_state.edited_prompt
    use_edited_prompt,  \* st.session_state.use_edited_prompt
    generated_prompt, \* generated_prompt of render_main_area
    display_prompt,   \* display_prompt of render_main_area
    prompt_editor,    \* the text the widget "prompt_editor" holds
    editor_value,     \* the value= the widget was last given
    spc,              \* position of the script: "run", "edit_tab" or "wait"
    event,            \* the interaction the script run answers
    interactions,     \* the number of interactions so far
    last_call         \* the last call of a function of state.py, with move_message's arguments

cvars == <<token_patterns, text, result, cpc>>

session == <<messages, tools, include_tools, enable_thinking, add_generation_prompt>>

rvars == <<heap, session, template_state, rpc, call, extra_vars, outcome, context,
           prepared>>

hvars == <<markup, hpc>>

kvars == <<transformers, tokenizer_cache, loader_runs, count_outcome>>

\* The variables of the parts added to the classifier and the renderer.
evars == <<edited_prompt, use_edited_prompt, generated_prompt, display_prompt,
           prompt_editor, editor_value, spc, event, interactions>>

xvars == <<hvars, kvars, evars, last_call>>

vars == <<selected_model, cvars, rvars, xvars>>

-----------------------------------------------------------------------------
(* Bounds of the classifier's inputs.                                      *)

MaxRules == 2

MaxTextLen == 3

\* Characters of the generated text.  "h" and "i" are letters for which the
\* escape sequences \h and \i are errors in Python's re.
TextAlphabet == {"h", "i", ".", "\\"}

Letters == {"h", "i"}

\* Rule patterns of the registry entries tried: literal rules, literal rules
\* holding "." or a backslash, regular expressions, and patterns that do not
\* compile.
PatternPool ==
    { <<"h">>,
      <<"h", ".">>, <<"\\", ".">>, <<"\\">>,
      <<"h", "*">>, <<".", "*">>,
      <<"*">>, <<"h", ")", "|", "(", "i">> }

\* The key of the i-th rule: the keys of COLORS other than background and text.
ColorKeys == <<"bos_eos", "role", "think", "dsml", "func">>

ModelKeys == {"deepseek-v3.1", "qwen3", "glm-4.5", "minimax-m2"}

DEFAULT_MODEL == "qwen3"

\* A model identifier that is not a key of MODELS.
UnknownModel == "no-such-model"

SeqsUpTo(S, n) == UNION { [1..k -> S] : k \in 0..n }

RuleLists ==
    { [i \in 1..Len(ps) |-> [pattern |-> ps[i], key |-> ColorKeys[i]]] :
        ps \in SeqsUpTo(PatternPool, MaxRules) }

Texts == SeqsUpTo(TextAlphabet, MaxTextLen)

-----------------------------------------------------------------------------
(* Python's re, for the pattern syntax the pool uses: ordinary characters, *)
(* ".", "\" escapes, "*", "|" and groups.                                  *)

\* The characters tokenize_with_colors takes as a sign of a regular expression.
MetaChars == {"+", "*", "?", "[", "]", "(", ")", "{", "}", "|", "^", "$"}

\* The characters re.escape puts a backslash before.
EscapeSpecial ==
    {"(", ")", "[", "]", "{", "}", "?", "*", "+", "-", "|", "^", "$", "\\",
     ".", "&", "~", "#", " "}

RECURSIVE ReEscape(_)
ReEscape(p) ==
    IF p = <<>> THEN <<>>
    ELSE (IF Head(p) \in EscapeSpecial THEN <<"\\", Head(p)>> ELSE <<Head(p)>>)
         \o ReEscape(Tail(p))

ParseError(i) == [ok |-> FALSE, ast |-> <<"err">>, pos |-> i]

RECURSIVE ParseSeq(_, _, _), ParseAlt(_, _, _)

\* One branch of an alternation, from offset i on; items are the nodes parsed
\* so far.  Stops before "|", ")" or the end of the pattern.
ParseSeq(p, i, items) ==
    IF i > Len(p) \/ p[i] = "|" \/ p[i] = ")"
    THEN [ok |-> TRUE, ast |-> <<"seq", items>>, pos |-> i]
    ELSE CASE p[i] = "\\" ->
                 IF i = Len(p) \/ p[i + 1] \in Letters
                 THEN ParseError(i)            \* bad escape
                 ELSE ParseSeq(p, i + 2, Append(items, <<"lit", p[i + 1]>>))
           [] p[i] = "(" ->
                 LET r == ParseAlt(p, i + 1, <<>>)
                 IN  IF ~r.ok \/ r.pos > Len(p)
                     THEN ParseError(i)        \* missing ), unterminated subpattern
                     ELSE ParseSeq(p, r.pos + 1, Append(items, r.ast))
           [] p[i] = "*" ->
                 IF items = <<>> \/ items[Len(items)][1] = "star"
                 THEN ParseError(i)            \* nothing to repeat, multiple repeat
                 ELSE ParseSeq(p, i + 1,
                               [items EXCEPT ![Len(items)] = <<"star", @>>])
           [] p[i] = "." -> ParseSeq(p, i + 1, Append(items, <<"any">>))
           [] OTHER -> ParseSeq(p, i + 1, Append(items, <<"lit", p[i]>>))

ParseAlt(p, i, alts) ==
    LET s == ParseSeq(p, i, <<>>)
    IN  IF ~s.ok THEN s
        ELSE IF s.pos <= Len(p) /\ p[s.pos] = "|"
             THEN ParseAlt(p, s.pos + 1, Append(alts, s.ast))
             ELSE [ok |-> TRUE, ast |-> <<"alt", Append(alts, s.ast)>>, pos |-> s.pos]

\* re.compile: ok is FALSE where Python raises re.error.
Compile(p) ==
    LET r == ParseAlt(p, 1, <<>>)
    IN  IF r.ok /\ r.pos = Len(p) + 1 THEN r
        ELSE ParseError(r.pos)                 \* unbalanced parenthesis

RECURSIVE Ends(_, _, _), EndsSeq(_, _, _, _), EndsAlt(_, _, _, _), EndsFrom(_, _, _, _)

\* The offsets at which a match of node starting at offset pos of t can end,
\* in the order the backtracking matcher tries them.
Ends(node, t, pos) ==
    CASE node[1] = "lit" ->
            IF pos < Len(t) /\ t[pos + 1] = node[2] THEN <<pos + 1>> ELSE <<>>
      [] node[1] = "any" -> IF pos < Len(t) THEN <<pos + 1>> ELSE <<>>
      [] node[1] = "seq" -> EndsSeq(node[2], 1, t, pos)
      [] node[1] = "alt" -> EndsAlt(node[2], 1, t, pos)
      [] node[1] = "star" ->
            \* greedy: one more repetition first, then none
            EndsFrom(node, SelectSeq(Ends(node[2], t, pos), LAMBDA e : e > pos), 1, t)
            \o <<pos>>

\* The ends of node continued from each offset of the list es, from es[k] on.
EndsFrom(node, es, k, t) ==
    IF k > Len(es) THEN <<>>
    ELSE Ends(node, t, es[k]) \o EndsFrom(node, es, k + 1, t)

EndsSeq(items, k, t, pos) ==
    IF k > Len(items) THEN <<pos>>
    ELSE EndsFrom(<<"seq", SubSeq(items, k + 1, Len(items))>>,
                  Ends(items[k], t, pos), 1, t)

EndsAlt(alts, k, t, pos) ==
    IF k > Len(alts) THEN <<>>
    ELSE Ends(alts[k], t, pos) \o EndsAlt(alts, k + 1, t, pos)

\* The ends allowed for a match at offset p of a search that began at start:
\* after an empty match the next one may not be empty at the same offset.
Candidates(ast, t, p, start, must_advance) ==
    SelectSeq(Ends(ast, t, p), LAMBDA e : ~(must_advance /\ p = start /\ e = p))

\* One statement after another: F of the value x, with x computed once.
Then(x, F(_)) == CHOOSE y \in { F(v) : v \in {x} } : TRUE

\* The least offset of lo..hi at which a match can start, -1 if there is
\* none; the offsets are halved so that a long text is searched at a depth
\* of its logarithm.
RECURSIVE FirstHit(_, _, _, _, _, _)
FirstHit(ast, t, lo, hi, start, must_advance) ==
    IF lo > hi THEN -1
    ELSE IF lo = hi
    THEN (IF Candidates(ast, t, lo, start, must_advance) # <<>> THEN lo ELSE -1)
    ELSE Then(FirstHit(ast, t, lo, (lo + hi) \div 2, start, must_advance),
              LAMBDA l :
                  IF l # -1 THEN l
                  ELSE FirstHit(ast, t, (lo + hi) \div 2 + 1, hi, start, must_advance))

\* The leftmost match at or after offset p of a search that began at start.
SearchFrom(ast, t, p, start, must_advance) ==
    Then(FirstHit(ast, t, p, Len(t), start, must_advance),
         LAMBDA first :
             IF first = -1 THEN [found |-> FALSE, s |-> Len(t) + 1, e |-> Len(t) + 1]
             ELSE [found |-> TRUE, s |-> first,
                   e |-> Candidates(ast, t, first, start, must_advance)[1]])

\* re.finditer: the successive non-overlapping matches, as [s, e] spans.
RECURSIVE FindIter(_, _, _, _)
FindIter(ast, t, start, must_advance) ==
    LET m == SearchFrom(ast, t, start, start, must_advance)
    IN  IF ~m.found THEN <<>>
        ELSE <<[s |-> m.s, e |-> m.e]>> \o FindIter(ast, t, m.e, m.e = m.s)

\* re.fullmatch(pattern, s): "error" where it raises re.error.
FullMatch(pattern, s) ==
    LET c == Compile(pattern)
    IN  IF ~c.ok THEN "error"
        ELSE LET ends == Ends(c.ast, s, 0)
             IN  IF \E k \in 1..Len(ends) : ends[k] = Len(s)
                 THEN "match" ELSE "nomatch"

-----------------------------------------------------------------------------
(* tokenize_with_colors                                                    *)

GetTokenPatterns ==
    IF selected_model \in ModelKeys THEN token_patterns ELSE <<>>

IsRegexPattern(p) == \E i \in 1..Len(p) : p[i] \in MetaChars

\* One parenthesised member of the combined pattern.
RegexPart(p) ==
    <<"(">> \o (IF IsRegexPattern(p) THEN p ELSE ReEscape(p)) \o <<")">>

\* JoinParts without the "|" between the members.
RECURSIVE JoinPartsNoBar(_, _)
JoinPartsNoBar(patterns, k) ==
    IF k > Len(patterns) THEN <<>>
    ELSE RegexPart(patterns[k].pattern) \o JoinPartsNoBar(patterns, k + 1)

RECURSIVE JoinParts(_, _)
JoinParts(patterns, k) ==
    IF k > Len(patterns) THEN <<>>
    ELSE (IF k > 1 THEN <<"|">> ELSE <<>>)
         \o RegexPart(patterns[k].pattern) \o JoinParts(patterns, k + 1)

CombinedPattern(patterns) == JoinParts(patterns, 1)

\* ColorKeyFrom with the span left plain where a rule alone does not compile.
RECURSIVE ColorKeyPlainOnError(_, _, _)
ColorKeyPlainOnError(patterns, k, matched_text) ==
    IF k > Len(patterns) THEN "text"
    ELSE LET fm == FullMatch(patterns[k].pattern, matched_text)
         IN  IF fm = "match" THEN patterns[k].key
             ELSE IF fm = "error" THEN "text"
             ELSE ColorKeyPlainOnError(patterns, k + 1, matched_text)

\* The key of the first rule that fully matches the span, or whose text equals
\* it where the rule alone does not compile; "text" if there is none.
RECURSIVE ColorKeyFrom(_, _, _)
ColorKeyFrom(patterns, k, matched_text) ==
    IF k > Len(patterns) THEN "text"
    ELSE LET fm == FullMatch(patterns[k].pattern, matched_text)
         IN  IF fm = "match" \/ (fm = "error" /\ patterns[k].pattern = matched_text)
             THEN patterns[k].key
             ELSE ColorKeyFrom(patterns, k + 1, matched_text)

ColorKey(patterns, matched_text) == ColorKeyFrom(patterns, 1, matched_text)

Slice(t, a, b) == SubSeq(t, a + 1, b)          \* t[a:b]

Seg(t, k) == [text |-> t, color |-> k]

\* GapBefore with the gap taken one character late.
GapBeforeLate(t, last_end, m) ==
    IF m.s > last_end THEN <<Seg(Slice(t, last_end + 1, m.s), "text")>> ELSE <<>>

\* The text before a match, as a plain segment, when there is any.
GapBefore(t, last_end, m) ==
    IF m.s > last_end THEN <<Seg(Slice(t, last_end, m.s), "text")>> ELSE <<>>

\* The loop over the matches: matches[k..] with last_end as the loop left it.
RECURSIVE TokenizeLoop(_, _, _, _, _)
TokenizeLoop(patterns, t, matches, k, last_end) ==
    IF k > Len(matches)
    THEN IF last_end < Len(t) THEN <<Seg(Slice(t, last_end, Len(t)), "text")>> ELSE <<>>
    ELSE LET m == matches[k]
             matched_text == Slice(t, m.s, m.e)
         IN  GapBefore(t, last_end, m)
             \o <<Seg(matched_text, ColorKey(patterns, matched_text))>>
             \o TokenizeLoop(patterns, t, matches, k + 1, m.e)

\* TokenizeWithColors with "return result" in the handler of re.error.
TokenizeKeepResult(patterns, t) ==
    IF patterns = <<>> THEN <<Seg(t, "text")>>
    ELSE LET c == Compile(CombinedPattern(patterns))
         IN  IF ~c.ok THEN <<>>
             ELSE TokenizeLoop(patterns, t, FindIter(c.ast, t, 0, FALSE), 1, 0)

TokenizeWithColors(patterns, t) ==
    IF patterns = <<>> THEN <<Seg(t, "text")>>
    ELSE LET c == Compile(CombinedPattern(patterns))
         IN  IF ~c.ok THEN <<Seg(t, "text")>>
             ELSE TokenizeLoop(patterns, t, FindIter(c.ast, t, 0, FALSE), 1, 0)

-----------------------------------------------------------------------------
(* highlight_prompt                                                        *)

\* The strings of the markup, character by character.
AMP == <<"&", "a", "m", "p", ";">>

LT == <<"&", "l", "t", ";">>

GT == <<"&", "g", "t", ";">>

SPAN_OPEN == <<"<", "s", "p", "a", "n", " ", "c", "l", "a", "s", "s", "=", "\"">>

SPAN_OPEN_END == <<"\"", ">">>

SPAN_CLOSE == <<"<", "/", "s", "p", "a", "n", ">">>

\* The values of COLOR_CLASS_MAP.
TOKEN_BOS == <<"t", "o", "k", "e", "n", "-", "b", "o", "s">>

TOKEN_ROLE == <<"t", "o", "k", "e", "n", "-", "r", "o", "l", "e">>

TOKEN_THINK == <<"t", "o", "k", "e", "n", "-", "t", "h", "i", "n", "k">>

TOKEN_DSML == <<"t", "o", "k", "e", "n", "-", "d", "s", "m", "l">>

TOKEN_FUNC == <<"t", "o", "k", "e", "n", "-", "f", "u", "n", "c">>

\* text.replace("&", "&amp;").replace("<", "&lt;").replace(">", "&gt;")
RECURSIVE escape_html(_)
escape_html(t) ==
    IF t = <<>> THEN <<>>
    ELSE (CASE Head(t) = "&" -> AMP
            [] Head(t) = "<" -> LT
            [] Head(t) = ">" -> GT
            [] OTHER -> <<Head(t)>>)
         \o escape_html(Tail(t))

\* pattern.replace("<", "&lt;").replace(">", "&gt;")
RECURSIVE HtmlLiteral(_)
HtmlLiteral(p) ==
    IF p = <<>> THEN <<>>
    ELSE (CASE Head(p) = "<" -> LT
            [] Head(p) = ">" -> GT
            [] OTHER -> <<Head(p)>>)
         \o HtmlLiteral(Tail(p))

\* The characters highlight_prompt takes as a sign of a regular expression.
HighlightMetaChars == MetaChars \cup {"."}

\* html_pattern: escaped for re unless the rule has a metacharacter.
HtmlPattern(p) ==
    IF \E i \in 1..Len(p) : p[i] \in HighlightMetaChars THEN HtmlLiteral(p)
    ELSE ReEscape(HtmlLiteral(p))

\* COLOR_CLASS_MAP.get(color_key, "token-dsml")
CssClass(color_key) ==
    CASE color_key = "bos_eos" -> TOKEN_BOS
      [] color_key = "role" -> TOKEN_ROLE
      [] color_key = "think" -> TOKEN_THINK
      [] color_key = "func" -> TOKEN_FUNC
      [] OTHER -> TOKEN_DSML

\* <span class="css_class">
OpenTag(css_class) == SPAN_OPEN \o css_class \o SPAN_OPEN_END

\* The string s with every span of ms wrapped in a span of css_class: the
\* pattern is one group, so \1 is the match.
RECURSIVE WrapMatches(_, _, _, _, _)
WrapMatches(s, ms, k, last_end, css_class) ==
    IF k > Len(ms) THEN Slice(s, last_end, Len(s))
    ELSE Slice(s, last_end, ms[k].s)
         \o OpenTag(css_class) \o Slice(s, ms[k].s, ms[k].e) \o SPAN_CLOSE
         \o WrapMatches(s, ms, k + 1, ms[k].e, css_class)

\* The body of the loop over the rules: re.sub with the rule's pattern, or,
\* where re.sub raises re.error, str.replace with the rule's text.
HighlightRule(res, rule) ==
    LET c == Compile(<<"(">> \o HtmlPattern(rule.pattern) \o <<")">>)
        lit == Compile(ReEscape(HtmlLiteral(rule.pattern)))
        ast == IF c.ok THEN c.ast ELSE lit.ast
    IN  WrapMatches(res, FindIter(ast, res, 0, FALSE), 1, 0, CssClass(rule.key))

RECURSIVE HighlightLoop(_, _, _)
HighlightLoop(res, patterns, k) ==
    IF k > Len(patterns) THEN res
    ELSE Then(HighlightRule(res, patterns[k]),
              LAMBDA r : HighlightLoop(r, patterns, k + 1))

HighlightPrompt(patterns, t) ==
    IF patterns = <<>> THEN escape_html(t)
    ELSE HighlightLoop(escape_html(t), patterns, 1)

-----------------------------------------------------------------------------
(* Python values.  A dict or list that the code copies or assigns into is  *)
(* an object of the heap, held by reference; the other values are          *)
(* immutable.  A string is a sequence of characters or of longer pieces.   *)

None == [t |-> "none"]

Str(s) == [t |-> "str", v |-> s]

Num(n) == [t |-> "int", v |-> n]

\* A dict that is only read, as a list of <<key, value>> in insertion order.
Dict(pairs) == [t |-> "dict", v |-> pairs]

\* A list that is only read.
List(items) == [t |-> "list", v |-> items]

Ref(a) == [t |-> "ref", v |-> a]

\* The objects of the heap: a dict as a function of its keys, and a list.
Obj(f) == [t |-> "obj", v |-> f]

Lst(items) == [t |-> "lst", v |-> items]

IsDictRef(h, x) == x.t = "ref" /\ h[x.v].t = "obj"

IsListRef(h, x) == x.t = "ref" /\ h[x.v].t = "lst"

\* type(x).__name__
TypeName(h, x) ==
    CASE x.t = "none" -> "NoneType"
      [] x.t = "ref" -> IF h[x.v].t = "obj" THEN "dict" ELSE "list"
      [] OTHER -> x.t

\* bool(x)
Truthy(h, x) ==
    CASE x.t = "none" -> FALSE
      [] x.t = "int" -> x.v # 0
      [] x.t = "ref" -> IF h[x.v].t = "obj" THEN DOMAIN h[x.v].v # {}
                        ELSE h[x.v].v # <<>>
      [] OTHER -> x.v # <<>>

Alloc(h, obj) == [heap |-> Append(h, obj), ref |-> Ref(Len(h) + 1)]

HasKey(h, r, k) == k \in DOMAIN h[r.v].v

GetItem(h, r, k) == h[r.v].v[k]

\* dict.get(k)
Get(h, r, k) == IF HasKey(h, r, k) THEN GetItem(h, r, k) ELSE None

\* d[k] = x
SetItem(h, r, k, x) ==
    [h EXCEPT ![r.v] =
        Obj([kk \in (DOMAIN @.v) \cup {k} |-> IF kk = k THEN x ELSE @.v[kk]])]

\* l.append(x)
ListAppend(h, r, x) == [h EXCEPT ![r.v] = Lst(Append(@.v, x))]

\* d.copy(): a new dict with the same keys and values
DictCopy(h, r) == Alloc(h, h[r.v])

\* The addresses an object refers to.
RefsOf(o) ==
    IF o.t = "obj"
    THEN { o.v[k].v : k \in { kk \in DOMAIN o.v : o.v[kk].t = "ref" } }
    ELSE { o.v[i].v : i \in { j \in 1..Len(o.v) : o.v[j].t = "ref" } }

RECURSIVE Reach(_, _)
Reach(h, S) ==
    LET T == S \cup UNION { RefsOf(h[a]) : a \in S }
    IN  IF T = S THEN S ELSE Reach(h, T)

Relocate(x, map) == IF x.t = "ref" THEN Ref(map[x.v]) ELSE x

RelocateObj(o, map) ==
    IF o.t = "obj" THEN Obj([k \in DOMAIN o.v |-> Relocate(o.v[k], map)])
    ELSE Lst([i \in 1..Len(o.v) |-> Relocate(o.v[i], map)])

\* copy.deepcopy(x): a new object for every object reachable from x.
DeepCopy(h, x) ==
    IF x.t # "ref" THEN [heap |-> h, val |-> x]
    ELSE LET R == Reach(h, {x.v})
             Rank(a) == Cardinality({ b \in R : b <= a })
             map == [a \in R |-> Len(h) + Rank(a)]
             new == [i \in 1..Cardinality(R) |->
                        RelocateObj(h[CHOOSE a \in R : Rank(a) = i], map)]
         IN  [heap |-> h \o new, val |-> Ref(map[x.v])]

\* How a call ends: it returns val, or raises exc.
NoExc == [type |-> "", msg |-> <<>>]

Ok(h, x) == [ok |-> TRUE, heap |-> h, val |-> x, exc |-> NoExc]

Raise(h, type, msg) ==
    [ok |-> FALSE, heap |-> h, val |-> None, exc |-> [type |-> type, msg |-> msg]]

-----------------------------------------------------------------------------
(* json.loads and json.dumps, for objects, arrays, strings without escapes *)
(* and numbers written with the digits 1 and 2.                            *)

JsonDigits == <<"0", "1", "2", "3", "4", "5", "6", "7", "8", "9">>

IsDigit(c) == \E d \in 1..Len(JsonDigits) : JsonDigits[d] = c

DigitValue(c) == (CHOOSE d \in 1..Len(JsonDigits) : JsonDigits[d] = c) - 1

JsonFail == [ok |-> FALSE, val |-> None, pos |-> 0]

JsonOk(x, i) == [ok |-> TRUE, val |-> x, pos |-> i]

RECURSIVE SkipWs(_, _)
SkipWs(s, i) == IF i <= Len(s) /\ s[i] = " " THEN SkipWs(s, i + 1) ELSE i

\* The index of the first quote at or after i, 0 if there is none.
RECURSIVE ClosingQuote(_, _)
ClosingQuote(s, i) ==
    IF i > Len(s) THEN 0
    ELSE IF s[i] = "\"" THEN i ELSE ClosingQuote(s, i + 1)

\* A string that opens at s[i].
JsonString(s, i) ==
    LET j == ClosingQuote(s, i + 1)
    IN  IF j = 0 THEN JsonFail ELSE JsonOk(Str(SubSeq(s, i + 1, j - 1)), j + 1)

RECURSIVE JsonNumber(_, _, _)
JsonNumber(s, i, n) ==
    IF i <= Len(s) /\ IsDigit(s[i])
    THEN JsonNumber(s, i + 1, 10 * n + DigitValue(s[i]))
    ELSE JsonOk(Num(n), i)

\* d[k] = x on a read-only dict: a later value for a key replaces the earlier.
DictSet(pairs, k, x) ==
    IF \E i \in 1..Len(pairs) : pairs[i][1] = k
    THEN [i \in 1..Len(pairs) |-> IF pairs[i][1] = k THEN <<k, x>> ELSE pairs[i]]
    ELSE Append(pairs, <<k, x>>)

RECURSIVE JsonValue(_, _), JsonMembers(_, _, _), JsonElements(_, _, _)

JsonValue(s, i) ==
    IF i > Len(s) THEN JsonFail
    ELSE CASE s[i] = "\"" -> JsonString(s, i)
           [] s[i] = "{" ->
                 LET j == SkipWs(s, i + 1)
                 IN  IF j <= Len(s) /\ s[j] = "}" THEN JsonOk(Dict(<<>>), j + 1)
                     ELSE JsonMembers(s, j, <<>>)
           [] s[i] = "[" ->
                 LET j == SkipWs(s, i + 1)
                 IN  IF j <= Len(s) /\ s[j] = "]" THEN JsonOk(List(<<>>), j + 1)
                     ELSE JsonElements(s, j, <<>>)
           [] IsDigit(s[i]) /\ s[i] # "0" -> JsonNumber(s, i, 0)
           [] OTHER -> JsonFail

\* The members of an object from the key expected at s[i] on.
JsonMembers(s, i, pairs) ==
    IF i > Len(s) \/ s[i] # "\"" THEN JsonFail
    ELSE LET k == JsonString(s, i)
             c == SkipWs(s, k.pos)
         IN  IF ~k.ok \/ c > Len(s) \/ s[c] # ":" THEN JsonFail
             ELSE LET x == JsonValue(s, SkipWs(s, c + 1))
                      e == SkipWs(s, x.pos)
                      ps == DictSet(pairs, k.val.v, x.val)
                  IN  IF ~x.ok \/ e > Len(s) THEN JsonFail
                      ELSE IF s[e] = "}" THEN JsonOk(Dict(ps), e + 1)
                      ELSE IF s[e] = "," THEN JsonMembers(s, SkipWs(s, e + 1), ps)
                      ELSE JsonFail

\* The elements of an array from the value expected at s[i] on.
JsonElements(s, i, items) ==
    LET x == JsonValue(s, i)
        e == SkipWs(s, x.pos)
    IN  IF ~x.ok \/ e > Len(s) THEN JsonFail
        ELSE IF s[e] = "]" THEN JsonOk(List(Append(items, x.val)), e + 1)
        ELSE IF s[e] = "," THEN JsonElements(s, SkipWs(s, e + 1), Append(items, x.val))
        ELSE JsonFail

\* json.loads(s): ok is FALSE where it raises json.JSONDecodeError.
JsonLoads(s) ==
    LET r == JsonValue(s, SkipWs(s, 1))
    IN  IF r.ok /\ SkipWs(s, r.pos) = Len(s) + 1 THEN r ELSE JsonFail

RECURSIVE Decimal(_)
Decimal(n) ==
    IF n < 10 THEN <<JsonDigits[n + 1]>>
    ELSE Decimal(n \div 10) \o <<JsonDigits[(n % 10) + 1]>>

RECURSIVE JsonDumps(_), DumpPairs(_, _), DumpItems(_, _)

\* json.dumps(x), with its separators ", " and ": ".
JsonDumps(x) ==
    CASE x.t = "dict" -> <<"{">> \o DumpPairs(x.v, 1) \o <<"}">>
      [] x.t = "list" -> <<"[">> \o DumpItems(x.v, 1) \o <<"]">>
      [] x.t = "str" -> <<"\"">> \o x.v \o <<"\"">>
      [] x.t = "int" -> Decimal(x.v)
      [] OTHER -> <<"null">>

DumpPairs(pairs, k) ==
    IF k > Len(pairs) THEN <<>>
    ELSE (IF k > 1 THEN <<",", " ">> ELSE <<>>)
         \o <<"\"">> \o pairs[k][1] \o <<"\"", ":", " ">> \o JsonDumps(pairs[k][2])
         \o DumpPairs(pairs, k + 1)

DumpItems(items, k) ==
    IF k > Len(items) THEN <<>>
    ELSE (IF k > 1 THEN <<",", " ">> ELSE <<>>)
         \o JsonDumps(items[k]) \o DumpItems(items, k + 1)

-----------------------------------------------------------------------------
(* prepare_messages                                                        *)

\* x.copy() where x has no such method.
NoCopy(h, x) ==
    Raise(h, "AttributeError", <<"'", TypeName(h, x), "' object has no attribute 'copy'">>)

\* LoadsOrEmpty with None where json.loads raises.
LoadsOrNone(s) ==
    LET r == JsonLoads(s) IN IF r.ok THEN r.val ELSE None

\* The arguments after json.loads, {} where it raises JSONDecodeError.
LoadsOrEmpty(s) ==
    LET r == JsonLoads(s) IN IF r.ok THEN r.val ELSE Dict(<<>>)

\* CopyFunction without the copy: the function dict itself.
AliasFunction(h, f) == [heap |-> h, ref |-> f]

\* func = tc_copy["function"].copy()
CopyFunction(h, f) == DictCopy(h, f)

\* The body of the loop over tool calls, for the tool call tc: the tc_copy to
\* append.
PrepToolCall(h, tc) ==
    IF ~IsDictRef(h, tc) THEN NoCopy(h, tc)
    ELSE LET c == DictCopy(h, tc)
         IN  IF ~HasKey(c.heap, c.ref, "function") THEN Ok(c.heap, c.ref)
             ELSE LET fv == GetItem(c.heap, c.ref, "function")
                  IN  IF ~IsDictRef(c.heap, fv) THEN NoCopy(c.heap, fv)
                      ELSE LET f == CopyFunction(c.heap, fv)
                               a == Get(f.heap, f.ref, "arguments")
                               h1 == IF a.t = "str"
                                     THEN SetItem(f.heap, f.ref, "arguments",
                                                  LoadsOrEmpty(a.v))
                                     ELSE f.heap
                           IN  Ok(SetItem(h1, c.ref, "function", f.ref), c.ref)

\* The loop over items[k..], appending to the list out.
RECURSIVE PrepToolCalls(_, _, _, _)
PrepToolCalls(h, items, k, out) ==
    IF k > Len(items) THEN Ok(h, out)
    ELSE Then(PrepToolCall(h, items[k]),
              LAMBDA r :
                  IF ~r.ok THEN r
                  ELSE PrepToolCalls(ListAppend(r.heap, out, r.val), items, k + 1, out))

\* The body of the loop over messages, for the message msg: the msg_copy to
\* append.
PrepMessage(h, msg) ==
    IF ~IsDictRef(h, msg) THEN NoCopy(h, msg)
    ELSE LET c == DictCopy(h, msg)
             tcs == Get(c.heap, c.ref, "tool_calls")
         IN  IF ~(HasKey(c.heap, c.ref, "tool_calls") /\ Truthy(c.heap, tcs))
             THEN Ok(c.heap, c.ref)
             ELSE IF ~IsListRef(c.heap, tcs)
             THEN Raise(c.heap, "TypeError",
                        <<"'", TypeName(c.heap, tcs), "' object is not iterable">>)
             ELSE LET l == Alloc(c.heap, Lst(<<>>))
                  IN  Then(PrepToolCalls(l.heap, c.heap[tcs.v].v, 1, l.ref),
                           LAMBDA r :
                               IF ~r.ok THEN r
                               ELSE Ok(SetItem(r.heap, c.ref, "tool_calls", l.ref),
                                       c.ref))

RECURSIVE PrepMessages(_, _, _, _)
PrepMessages(h, items, k, out) ==
    IF k > Len(items) THEN Ok(h, out)
    ELSE Then(PrepMessage(h, items[k]),
              LAMBDA r :
                  IF ~r.ok THEN r
                  ELSE PrepMessages(ListAppend(r.heap, out, r.val), items, k + 1, out))

\* prepare_messages(msgs), msgs a reference to a list.
PrepareMessages(h, msgs) ==
    LET p == Alloc(h, Lst(<<>>))
    IN  PrepMessages(p.heap, h[msgs.v].v, 1, p.ref)

-----------------------------------------------------------------------------
(* The registry and the templates                                          *)

\* MODELS, without the fields the renderer does not read.  The tokens of
\* deepseek-v3.1 are written with ASCII bars and underscores.
MODELS ==
    [m \in ModelKeys |->
        CASE m = "deepseek-v3.1" ->
                [template_file |-> "deepseek-v3.1.jinja",
                 bos_token |-> "<|begin_of_sentence|>",
                 eos_token |-> "<|end_of_sentence|>",
                 template_vars |-> [thinking |-> TRUE]]
          [] m = "qwen3" ->
                [template_file |-> "qwen3.jinja",
                 bos_token |-> "",
                 eos_token |-> "<|im_end|>",
                 template_vars |-> [enable_thinking |-> TRUE]]
          [] m = "glm-4.5" ->
                [template_file |-> "glm-4.5.jinja",
                 bos_token |-> "[gMASK]<sop>",
                 eos_token |-> "",
                 template_vars |-> [enable_thinking |-> TRUE]]
          [] m = "minimax-m2" ->
                [template_file |-> "minimax-m2.jinja",
                 bos_token |-> "]~!b[",
                 eos_token |-> "[e~[",
                 template_vars |-> <<>>]]

\* What the template directory can hold for a template file: a template that
\* renders, one that demands a system message first, one whose execution
\* fails, no file, a file that does not parse.
TemplateStates == {"renders", "strict", "fails", "missing", "syntax"}

\* raise_exception(message)
RaiseException(h, message) == Raise(h, "ValueError", message)

\* env.get_template(template_file)
GetTemplate(h, template_file) ==
    CASE template_state = "missing" ->
            Raise(h, "TemplateNotFound", <<template_file>>)
      [] template_state = "syntax" ->
            Raise(h, "TemplateSyntaxError", <<"unexpected end of template">>)
      [] OTHER -> Ok(h, Str(<<template_file>>))

\* What a template writes for one tool call: the function's name and the
\* arguments through the tojson filter.
ToolCallText(h, tc) ==
    IF ~HasKey(h, tc, "function") THEN <<>>
    ELSE LET f == GetItem(h, tc, "function")
             n == Get(h, f, "name")
         IN  <<"<call>">> \o (IF n.t = "str" THEN n.v ELSE <<>>)
             \o JsonDumps(Get(h, f, "arguments"))

RECURSIVE ToolCallsText(_, _, _)
ToolCallsText(h, items, k) ==
    IF k > Len(items) THEN <<>>
    ELSE ToolCallText(h, items[k]) \o ToolCallsText(h, items, k + 1)

\* What a template writes for one message.
MessageText(h, m) ==
    LET role == Get(h, m, "role")
        content == Get(h, m, "content")
        tcs == Get(h, m, "tool_calls")
    IN  <<"<role>">> \o (IF role.t = "str" THEN role.v ELSE <<>>)
        \o (IF content.t = "str" THEN content.v ELSE <<>>)
        \o (IF IsListRef(h, tcs) THEN ToolCallsText(h, h[tcs.v].v, 1) ELSE <<>>)

RECURSIVE MessagesText(_, _, _)
MessagesText(h, items, k) ==
    IF k > Len(items) THEN <<>>
    ELSE MessageText(h, items[k]) \o MessagesText(h, items, k + 1)

FlagText(ctx, name) ==
    IF name \in DOMAIN ctx /\ ctx[name] THEN <<"<", name, ">">> ELSE <<>>

\* A template that demands it raises unless the first message is a system
\* message.
SystemFirst(h, ctx) ==
    LET items == h[ctx.messages.v].v
    IN  items # <<>> /\ Get(h, items[1], "role") = Str(<<"system">>)

\* template.render(**ctx): the text, a function of the context alone.
TemplateRender(h, ctx) ==
    CASE template_state = "fails" ->
            Raise(h, "UndefinedError", <<"'dict object' has no attribute 'x'">>)
      [] template_state = "strict" /\ ~SystemFirst(h, ctx) ->
            RaiseException(h, <<"System message must be first">>)
      [] OTHER ->
            Ok(h, Str(<<ctx.bos_token>>
                      \o MessagesText(h, h[ctx.messages.v].v, 1)
                      \o (IF ctx.tools.t = "none" THEN <<>>
                          ELSE <<"<tools>">> \o JsonDumps(ctx.tools))
                      \o FlagText(ctx, "thinking") \o FlagText(ctx, "enable_thinking")
                      \o (IF ctx.add_generation_prompt THEN <<"<assistant>">>
                          ELSE <<>>)))

-----------------------------------------------------------------------------
(* render_template and generate_prompt                                     *)

\* {**a, **b}
Merge(a, b) ==
    [k \in (DOMAIN a) \cup (DOMAIN b) |-> IF k \in DOMAIN b THEN b[k] ELSE a[k]]

NoContext == [t |-> "none"]

\* A result of render_template, with the context and the prepared messages
\* it got to.
Rendered(r, ctx, prep) ==
    [ok |-> r.ok, heap |-> r.heap, val |-> r.val, exc |-> r.exc,
     context |-> ctx, prepared |-> prep]

\* UnknownModelMessage without the identifier.
UnknownModelMessageBare(model_key) == <<"Unknown model">>

UnknownModelMessage(model_key) == <<"Unknown model: ", model_key>>

LoadErrorString(template_file, e) ==
    Str(<<"Error loading template ", template_file, ": ">> \o e.msg)

\* RenderErrorString without the failure message.
RenderErrorStringBare(e) == Str(<<"Error rendering template">>)

RenderErrorString(e) == Str(<<"Error rendering template: ">> \o e.msg)

\* ContextTools with the tools passed on as given.
ContextToolsAsGiven(h, tls) == tls

\* "tools": tools if tools else None
ContextTools(h, tls) == IF Truthy(h, tls) THEN tls ELSE None

\* BuildContext with the model's defaults merged last.
BuildContextDefaultsLast(h, config, prep, tls, agp, extra) ==
    Merge(Merge([messages |-> prep,
                 tools |-> ContextTools(h, tls),
                 add_generation_prompt |-> agp,
                 bos_token |-> config.bos_token,
                 eos_token |-> config.eos_token],
                extra),
          config.template_vars)

\* The context dict of render_template.
BuildContext(h, config, prep, tls, agp, extra) ==
    Merge(Merge([messages |-> prep,
                 tools |-> ContextTools(h, tls),
                 add_generation_prompt |-> agp,
                 bos_token |-> config.bos_token,
                 eos_token |-> config.eos_token],
                config.template_vars),
          extra)

RenderTemplate(h, model_key, msgs, tls, agp, extra) ==
    IF model_key \notin ModelKeys
    THEN Rendered(Raise(h, "ValueError", UnknownModelMessage(model_key)),
                  NoContext, None)
    ELSE LET config == MODELS[model_key]
             t == GetTemplate(h, config.template_file)
         IN  IF ~t.ok
             THEN Rendered(Ok(h, LoadErrorString(config.template_file, t.exc)),
                           NoContext, None)
             ELSE Then(PrepareMessages(h, msgs),
                       LAMBDA p :
                           IF ~p.ok THEN Rendered(p, NoContext, None)
                           ELSE LET ctx == BuildContext(p.heap, config, p.val, tls,
                                                        agp, extra)
                                    r == TemplateRender(p.heap, ctx)
                                    c == [t |-> "ctx", v |-> ctx]
                                IN  IF r.ok THEN Rendered(r, c, p.val)
                                    ELSE Rendered(Ok(p.heap, RenderErrorString(r.exc)),
                                                  c, p.val))

\* The except clause of generate_prompt, narrowed to ValueError.
CatchValueError(r) ==
    IF r.ok \/ r.exc.type # "ValueError" THEN r
    ELSE [r EXCEPT !.ok = TRUE, !.exc = NoExc,
                   !.val = Str(<<"Error generating prompt: ">> \o r.exc.msg)]

\* try: return render_template(...)  except Exception as e: return f"..."
CatchAll(r) ==
    IF r.ok THEN r
    ELSE [r EXCEPT !.ok = TRUE, !.exc = NoExc,
                   !.val = Str(<<"Error generating prompt: ">> \o r.exc.msg)]

\* The template variables generate_prompt passes.
PromptTemplateVars ==
    [thinking |-> enable_thinking, enable_thinking |-> enable_thinking]

\* The tools generate_prompt passes.
PromptTools(h) == IF include_tools /\ Truthy(h, tools) THEN tools ELSE None

GeneratePrompt(h) ==
    Then(DeepCopy(h, messages),
         LAMBDA dc :
             CatchAll(RenderTemplate(dc.heap, selected_model, dc.val,
                                     PromptTools(dc.heap), add_generation_prompt,
                                     PromptTemplateVars)))

-----------------------------------------------------------------------------
(* load_tokenizer and count_tokens.  The tokenizer library is outside the  *)
(* program: whether it can be imported, whether from_pretrained loads a    *)
(* tokenizer and whether encode returns are its answers, and a tokenizer   *)
(* is one opaque value.                                                    *)

\* The tokenizer_id of each model of MODELS.
TokenizerId ==
    [m \in ModelKeys |->
        CASE m = "deepseek-v3.1" -> "deepseek-ai/DeepSeek-V3.1"
          [] m = "qwen3" -> "Qwen/Qwen3-235B-A22B"
          [] m = "glm-4.5" -> "zai-org/GLM-4.5"
          [] m = "minimax-m2" -> "MiniMaxAI/MiniMax-M2.1"]

TokenizerIds == { TokenizerId[m] : m \in ModelKeys }

\* The cache of st.cache_resource before any call: no entry for any id.
EmptyCache == [id \in TokenizerIds |-> "absent"]

\* The body of load_tokenizer: the import, then from_pretrained inside the
\* try, whose failure gives None.
LoadTokenizerBody(lib, load_ok) ==
    IF lib = "missing" THEN [ok |-> FALSE, val |-> "absent", exc |-> "ImportError"]
    ELSE IF load_ok THEN [ok |-> TRUE, val |-> "tokenizer", exc |-> ""]
    ELSE [ok |-> TRUE, val |-> "none", exc |-> ""]

\* load_tokenizer under st.cache_resource: the cached value if there is one,
\* else the body, whose returned value (None too) is stored; an exception is
\* not stored.
LoadTokenizer(cache, lib, tokenizer_id, load_ok) ==
    IF cache[tokenizer_id] # "absent"
    THEN [ok |-> TRUE, val |-> cache[tokenizer_id], exc |-> "", cache |-> cache,
          ran |-> FALSE]
    ELSE LET b == LoadTokenizerBody(lib, load_ok)
         IN  [ok |-> b.ok, val |-> b.val, exc |-> b.exc,
              cache |-> IF b.ok THEN [cache EXCEPT ![tokenizer_id] = b.val] ELSE cache,
              ran |-> TRUE]

NoCount ==
    [kind |-> "none", val |-> 0, exc |-> "", model_key |-> "", failure |-> "",
     ran |-> FALSE]

Counted(kind, val, exc, model_key, failure, ran) ==
    [kind |-> kind, val |-> val, exc |-> exc, model_key |-> model_key,
     failure |-> failure, ran |-> ran]

\* count_tokens(text, model_key), where encode returns n tokens or raises.
CountTokens(cache, lib, model_key, load_ok, encode_ok, n) ==
    IF model_key \notin ModelKeys
    THEN [cache |-> cache,
          out |-> Counted("return", 0, "", model_key, "unknown_model", FALSE)]
    ELSE LET l == LoadTokenizer(cache, lib, TokenizerId[model_key], load_ok)
         IN  [cache |-> l.cache,
              out |-> IF ~l.ok
                      THEN Counted("raise", 0, l.exc, model_key, "library", l.ran)
                      ELSE IF l.val = "none"
                      THEN Counted("return", 0, "", model_key, "load", l.ran)
                      ELSE IF encode_ok
                      THEN Counted("return", n, "", model_key, "", l.ran)
                      ELSE Counted("return", 0, "", model_key, "encode", l.ran)]

-----------------------------------------------------------------------------
(* The conversations, tools and flags the renderer is tried on.            *)

MaxMsgs == 2

Q == "\""

\* '{"q":1}', '[1]' and 'q' as the arguments string of a tool call.
ArgMapping == <<"{", Q, "q", Q, ":", "1", "}">>

ArgList == <<"[", "1", "]">>

ArgNotJson == <<"q">>

\* {"q": 1}
QueryDict == Dict(<< <<<<"q">>, Num(1)>> >>)

ArgValues == {Str(ArgMapping), Str(ArgList), Str(ArgNotJson), QueryDict, Num(1)}

\* A tool call: with a function dict holding arguments a, with a function
\* dict without arguments, without "function", with "function": None, or a
\* string in place of the dict.
ToolCallPool ==
    { [d |-> "args", a |-> x] : x \in ArgValues }
    \cup { [d |-> k, a |-> None] : k \in {"noargs", "nofunc", "funcnone", "notdict"} }

Plain(role) == [d |-> "plain", role |-> role, calls |-> <<>>]

Calls(tcs) == [d |-> "calls", role |-> "assistant", calls |-> tcs]

\* A message: role and content, an assistant message with tool calls (one of
\* the pool, a few pairs, or none), a string in place of the dict, or
\* "tool_calls": 1.
MessagePool ==
    { Plain("system"), Plain("user") }
    \cup { Calls(<<tc>>) : tc \in ToolCallPool }
    \cup { Calls(<<[d |-> "args", a |-> Str(ArgNotJson)],
                    [d |-> "args", a |-> Str(ArgMapping)]>>),
           Calls(<<[d |-> "args", a |-> Str(ArgMapping)],
                    [d |-> "args", a |-> Str(ArgNotJson)]>>),
           Calls(<<>>),
           [d |-> "notdict", role |-> "", calls |-> <<>>],
           [d |-> "badcalls", role |-> "assistant", calls |-> <<>>] }

Conversations == UNION { [1..k -> MessagePool] : k \in 1..MaxMsgs }

\* DEFAULT_MESSAGES, with short contents.
DefaultMessages ==
    <<Plain("system"), Plain("user"), Calls(<<[d |-> "args", a |-> QueryDict]>>),
      Plain("tool"), Plain("assistant")>>

\* DEFAULT_TOOLS, with the tool's name only.
DefaultTools == List(<<Dict(<< <<<<"name">>, Str(<<"search">>)>> >>)>>)

ToolsValues == {None, List(<<>>), DefaultTools}

FlagNames == {"thinking", "enable_thinking"}

ExtraVarSets == UNION { [S -> BOOLEAN] : S \in SUBSET FlagNames }

BuildToolCall(h, tc) ==
    CASE tc.d = "notdict" -> [heap |-> h, ref |-> Str(<<"search">>)]
      [] tc.d = "nofunc" -> Alloc(h, Obj([type |-> Str(<<"function">>)]))
      [] tc.d = "funcnone" ->
            Alloc(h, Obj([type |-> Str(<<"function">>), function |-> None]))
      [] tc.d = "noargs" ->
            LET f == Alloc(h, Obj([name |-> Str(<<"search">>)]))
            IN  Alloc(f.heap, Obj([type |-> Str(<<"function">>), function |-> f.ref]))
      [] tc.d = "args" ->
            LET f == Alloc(h, Obj([name |-> Str(<<"search">>), arguments |-> tc.a]))
            IN  Alloc(f.heap, Obj([type |-> Str(<<"function">>), function |-> f.ref]))

RECURSIVE BuildToolCalls(_, _, _, _)
BuildToolCalls(h, tcs, k, refs) ==
    IF k > Len(tcs) THEN Alloc(h, Lst(refs))
    ELSE LET b == BuildToolCall(h, tcs[k])
         IN  BuildToolCalls(b.heap, tcs, k + 1, Append(refs, b.ref))

BuildMessage(h, m) ==
    CASE m.d = "notdict" -> [heap |-> h, ref |-> Str(<<"hello">>)]
      [] m.d = "plain" ->
            Alloc(h, Obj([role |-> Str(<<m.role>>), content |-> Str(<<"hi">>)]))
      [] m.d = "badcalls" ->
            Alloc(h, Obj([role |-> Str(<<m.role>>), content |-> None,
                          tool_calls |-> Num(1)]))
      [] m.d = "calls" ->
            LET l == BuildToolCalls(h, m.calls, 1, <<>>)
            IN  Alloc(l.heap, Obj([role |-> Str(<<m.role>>), content |-> None,
                                   tool_calls |-> l.ref]))

\* The heap that holds the conversation ms[k..], and the reference to its list.
RECURSIVE BuildMessages(_, _, _, _)
BuildMessages(h, ms, k, refs) ==
    IF k > Len(ms) THEN Alloc(h, Lst(refs))
    ELSE LET b == BuildMessage(h, ms[k])
         IN  BuildMessages(b.heap, ms, k + 1, Append(refs, b.ref))

BuildConversation(ms) == BuildMessages(<<>>, ms, 1, <<>>)

NoOutcome == [kind |-> "none", val |-> None, exc |-> NoExc]

\* The renderer's variables while the classifier is looked at.
RenderIdle ==
    /\ heap = <<>>
    /\ messages = None
    /\ tools = None
    /\ include_tools = FALSE
    /\ enable_thinking = TRUE
    /\ add_generation_prompt = TRUE
    /\ template_state = "renders"
    /\ rpc = "idle"
    /\ call = "none"
    /\ extra_vars = <<>>
    /\ outcome = NoOutcome
    /\ context = NoContext
    /\ prepared = None

\* The highlighter's variables while another part is looked at.
HighlightIdle ==
    /\ markup = <<>>
    /\ hpc = "idle"

\* The token counter's variables while another part is looked at.
CountIdle ==
    /\ transformers = "importable"
    /\ tokenizer_cache = EmptyCache
    /\ loader_runs = [id \in TokenizerIds |-> 0]
    /\ count_outcome = NoCount

\* The variables of the added parts while the classifier or the renderer is
\* looked at.
\* The page's variables while another part is looked at.
PageIdle ==
    /\ edited_prompt = None
    /\ use_edited_prompt = FALSE
    /\ generated_prompt = None
    /\ display_prompt = None
    /\ prompt_editor = None
    /\ editor_value = None
    /\ spc = "idle"
    /\ event = "none"
    /\ interactions = 0

NoCall == [op |-> "none", index |-> 0, direction |-> 0]

ExtraIdle == HighlightIdle /\ CountIdle /\ PageIdle /\ last_call = NoCall

\* The classifier's variables while the renderer is looked at.
ClassifyIdle ==
    /\ token_patterns = <<>>
    /\ text = <<>>
    /\ result = <<>>
    /\ cpc = "idle"

-----------------------------------------------------------------------------
(* The classifier's specification: every rule list and text of the bounds, *)
(* then one call of tokenize_with_colors.                                  *)

InitClassify ==
    /\ \/ selected_model = DEFAULT_MODEL /\ token_patterns \in RuleLists
       \/ selected_model = UnknownModel /\ token_patterns = <<>>
    /\ text \in Texts
    /\ result = <<>>
    /\ cpc = "start"
    /\ RenderIdle
    /\ ExtraIdle

Tokenize ==
    /\ cpc = "start"
    /\ result' = TokenizeWithColors(GetTokenPatterns, text)
    /\ cpc' = "done"
    /\ UNCHANGED <<selected_model, token_patterns, text, rvars, xvars>>

NextClassify == Tokenize

SpecClassify == InitClassify /\ [][NextClassify]_vars

-----------------------------------------------------------------------------
(* The renderer's specification: a session state, then one call of         *)
(* generate_prompt, of render_template or of prepare_messages on it.       *)
(* Every conversation of the bounds is tried with the settings of          *)
(* init_session_state, and every setting with the default conversation.    *)

RenderStart(ms) ==
    /\ heap = BuildConversation(ms).heap
    /\ messages = BuildConversation(ms).ref
    /\ template_state \in TemplateStates
    /\ rpc = "start"
    /\ call = "none"
    /\ extra_vars = <<>>
    /\ outcome = NoOutcome
    /\ context = NoContext
    /\ prepared = None
    /\ ClassifyIdle
    /\ ExtraIdle

InitConversations ==
    /\ \E ms \in Conversations : RenderStart(ms)
    /\ selected_model \in {DEFAULT_MODEL, UnknownModel}
    /\ tools = DefaultTools
    /\ include_tools = FALSE
    /\ enable_thinking = TRUE
    /\ add_generation_prompt = TRUE

InitSettings ==
    /\ RenderStart(DefaultMessages)
    /\ selected_model \in ModelKeys \cup {UnknownModel}
    /\ tools \in ToolsValues
    /\ include_tools \in BOOLEAN
    /\ enable_thinking \in BOOLEAN
    /\ add_generation_prompt \in BOOLEAN

InitRender == InitConversations \/ InitSettings

\* The call c ends as r says.
Finish(c, r, extra) ==
    /\ rpc' = "done"
    /\ call' = c
    /\ heap' = r.heap
    /\ outcome' = IF r.ok THEN [kind |-> "return", val |-> r.val, exc |-> NoExc]
                  ELSE [kind |-> "raise", val |-> None, exc |-> r.exc]
    /\ context' = r.context
    /\ prepared' = r.prepared
    /\ extra_vars' = extra
    /\ UNCHANGED <<selected_model, cvars, session, template_state, xvars>>

GeneratePromptCall ==
    /\ rpc = "start"
    /\ Finish("generate_prompt", GeneratePrompt(heap), PromptTemplateVars)

RenderTemplateCall ==
    /\ rpc = "start"
    /\ \E extra \in ExtraVarSets :
          Finish("render_template",
                 RenderTemplate(heap, selected_model, messages, tools,
                                add_generation_prompt, extra),
                 extra)

PrepareMessagesCall ==
    /\ rpc = "start"
    /\ LET r == PrepareMessages(heap, messages)
       IN  Finish("prepare_messages",
                  Rendered(r, NoContext, IF r.ok THEN r.val ELSE None), <<>>)

NextRender == GeneratePromptCall \/ RenderTemplateCall \/ PrepareMessagesCall

SpecRender == InitRender /\ [][NextRender]_vars

-----------------------------------------------------------------------------
(* The highlighter's specification: a text and the rules of the selected   *)
(* model, then highlight_prompt and tokenize_with_colors on them, in       *)
(* either order.  The texts and rules are short ones over two characters   *)
(* that escape_html rewrites and a letter of the markup, and the           *)
(* end-to-end scenario of three rules.                                     *)

MaxHlRules == 2

MaxHlTextLen == 2

\* "k" is a letter of the markup: it is in every class name (token-...).
HlAlphabet == {"<", "&", "k"}

\* Rules without metacharacters, and "*", which does not compile.
HlPatternPool == { <<"<", "k">>, <<"k">>, <<"&", "k">>, <<"<">>, <<"*">> }

HlRuleLists ==
    { [i \in 1..Len(ps) |-> [pattern |-> ps[i], key |-> ColorKeys[i]]] :
        ps \in SeqsUpTo(HlPatternPool, MaxHlRules) }

HlTexts == SeqsUpTo(HlAlphabet, MaxHlTextLen)

SCN_BOS == <<"<", "s", ">">>

SCN_EOS == <<"<", "/", "s", ">">>

SCN_ROLE == <<"<", "r", "o", "l", "e", ">">>

SCN_TEXT == <<"<", "s", ">", "<", "r", "o", "l", "e", ">", "h", "i", "<", "/", "r", "o", "l", "e", ">", "<", "/", "s", ">">>

\* A profile with the boundary tokens <s> and </s> and the role rule <role>.
ScenarioRules ==
    <<[pattern |-> SCN_BOS, key |-> "bos_eos"],
      [pattern |-> SCN_EOS, key |-> "bos_eos"],
      [pattern |-> SCN_ROLE, key |-> "role"]>>

ScenarioText == SCN_TEXT

InitHighlight ==
    /\ selected_model \in {DEFAULT_MODEL, UnknownModel}
    /\ \/ token_patterns \in HlRuleLists /\ text \in HlTexts
       \/ token_patterns = ScenarioRules /\ text = ScenarioText
    /\ result = <<>>
    /\ cpc = "start"
    /\ markup = <<>>
    /\ hpc = "start"
    /\ RenderIdle
    /\ CountIdle
    /\ PageIdle
    /\ last_call = NoCall

Highlight ==
    /\ hpc = "start"
    /\ markup' = HighlightPrompt(GetTokenPatterns, text)
    /\ hpc' = "done"
    /\ UNCHANGED <<selected_model, cvars, rvars, kvars, evars, last_call>>

NextHighlight == Highlight \/ Tokenize

SpecHighlight == InitHighlight /\ [][NextHighlight]_vars

-----------------------------------------------------------------------------
(* The token counter's specification: a process in which the library can   *)
(* be imported or not, then calls of count_tokens for any model key.       *)

\* The largest number of tokens encode returns.
MaxTokens == 2

\* The largest number of runs of the body of load_tokenizer for one id.
MaxLoaderRuns == 2

InitCount ==
    /\ selected_model = DEFAULT_MODEL
    /\ transformers \in {"importable", "missing"}
    /\ tokenizer_cache = EmptyCache
    /\ loader_runs = [id \in TokenizerIds |-> 0]
    /\ count_outcome = NoCount
    /\ ClassifyIdle
    /\ RenderIdle
    /\ HighlightIdle
    /\ PageIdle
    /\ last_call = NoCall

\* The call count_tokens(text, model_key) and what it leaves in the cache.
CountCall(model_key, load_ok, encode_ok, n) ==
    LET c == CountTokens(tokenizer_cache, transformers, model_key, load_ok,
                         encode_ok, n)
    IN  /\ c.out.ran => loader_runs[TokenizerId[model_key]] < MaxLoaderRuns
        /\ tokenizer_cache' = c.cache
        /\ loader_runs' = IF c.out.ran
                          THEN [loader_runs EXCEPT ![TokenizerId[model_key]] = @ + 1]
                          ELSE loader_runs
        /\ count_outcome' = c.out
        /\ UNCHANGED transformers

CountTokensCall ==
    /\ \E model_key \in ModelKeys \cup {UnknownModel}, load_ok \in BOOLEAN,
          encode_ok \in BOOLEAN, n \in 0..MaxTokens :
          CountCall(model_key, load_ok, encode_ok, n)
    /\ UNCHANGED <<selected_model, cvars, rvars, hvars, evars, last_call>>

NextCount == CountTokensCall

SpecCount == InitCount /\ [][NextCount]_vars

-----------------------------------------------------------------------------
(* The page's specification: the session of init_session_state, then the   *)
(* script runs (render_main_area, then its edit tab) and, between them,    *)
(* the interactions that start the next run: the handlers of the sidebar,  *)
(* typing into the edit tab's text area, the reset button.                 *)

\* The largest number of interactions of one session.
MaxInteractions == 2

\* What the user types into the text area.
TypedTexts == {Str(<<"edited">>)}

InitPage ==
    /\ selected_model = DEFAULT_MODEL
    /\ heap = BuildConversation(DefaultMessages).heap
    /\ messages = BuildConversation(DefaultMessages).ref
    /\ tools = DefaultTools
    /\ include_tools = FALSE
    /\ enable_thinking = TRUE
    /\ add_generation_prompt = TRUE
    /\ template_state = "renders"
    /\ rpc = "idle"
    /\ call = "none"
    /\ extra_vars = <<>>
    /\ outcome = NoOutcome
    /\ context = NoContext
    /\ prepared = None
    /\ edited_prompt = None
    /\ use_edited_prompt = FALSE
    /\ generated_prompt = None
    /\ display_prompt = None
    /\ prompt_editor = None
    /\ editor_value = None
    /\ spc = "run"
    /\ event = "start"
    /\ interactions = 0
    /\ transformers \in {"importable", "missing"}
    /\ tokenizer_cache = EmptyCache
    /\ loader_runs = [id \in TokenizerIds |-> 0]
    /\ count_outcome = NoCount
    /\ last_call = NoCall
    /\ ClassifyIdle
    /\ HighlightIdle

\* The variables no step of the page changes.
PageFixed == <<cvars, hvars, template_state, rpc, call, extra_vars, outcome, context,
               prepared, last_call>>

\* An interaction ends and the script runs again.
Rerun(e) ==
    /\ interactions < MaxInteractions
    /\ interactions' = interactions + 1
    /\ spc' = "run"
    /\ event' = e
    /\ UNCHANGED <<PageFixed, kvars, generated_prompt, display_prompt, editor_value>>

Items == heap[messages.v].v

\* The button of the sidebar: add_message(), st.rerun().
AddMessage ==
    /\ spc = "wait"
    /\ LET m == Alloc(heap, Obj([role |-> Str(<<"user">>), content |-> Str(<<>>)]))
       IN  heap' = ListAppend(m.heap, messages, m.ref)
    /\ use_edited_prompt' = FALSE
    /\ Rerun("add_message")
    /\ UNCHANGED <<selected_model, session, edited_prompt, prompt_editor>>

\* items without its element at index (from 0).
Pop(items, index) ==
    [k \in 1..(Len(items) - 1) |-> IF k <= index THEN items[k] ELSE items[k + 1]]

\* The button of message index: delete_message(index), st.rerun().
DeleteMessage ==
    /\ spc = "wait"
    /\ \E index \in 0..(Len(Items) - 1) :
          IF Len(Items) > 1
          THEN /\ heap' = [heap EXCEPT ![messages.v] = Lst(Pop(Items, index))]
               /\ use_edited_prompt' = FALSE
               /\ Rerun("delete_message")
          ELSE /\ UNCHANGED <<heap, use_edited_prompt>>
               /\ Rerun("nothing")
    /\ UNCHANGED <<selected_model, session, edited_prompt, prompt_editor>>

\* items with its elements at index and new_index (from 0) exchanged.
Swap(items, index, new_index) ==
    [items EXCEPT ![index + 1] = items[new_index + 1],
                  ![new_index + 1] = items[index + 1]]

\* A button of message index: move_message(index, direction), st.rerun().
MoveMessage ==
    /\ spc = "wait"
    /\ \E index \in 0..(Len(Items) - 1), direction \in {-1, 1} :
          LET new_index == index + direction
          IN  IF 0 <= new_index /\ new_index < Len(Items)
              THEN /\ heap' = [heap EXCEPT
                                 ![messages.v] = Lst(Swap(Items, index, new_index))]
                   /\ use_edited_prompt' = FALSE
                   /\ Rerun("move_message")
              ELSE /\ UNCHANGED <<heap, use_edited_prompt>>
                   /\ Rerun("nothing")
    /\ UNCHANGED <<selected_model, session, edited_prompt, prompt_editor>>

\* on_model_change, when another model is selected.
ModelChange ==
    /\ spc = "wait"
    /\ \E m \in ModelKeys \ {selected_model} : selected_model' = m
    /\ use_edited_prompt' = FALSE
    /\ Rerun("model")
    /\ UNCHANGED <<heap, session, edited_prompt, prompt_editor>>

\* on_thinking_change
ThinkingChange ==
    /\ spc = "wait"
    /\ enable_thinking' = ~enable_thinking
    /\ use_edited_prompt' = FALSE
    /\ Rerun("thinking")
    /\ UNCHANGED <<selected_model, heap, messages, tools, include_tools,
                   add_generation_prompt, edited_prompt, prompt_editor>>

\* on_gen_prompt_change
GenPromptChange ==
    /\ spc = "wait"
    /\ add_generation_prompt' = ~add_generation_prompt
    /\ use_edited_prompt' = FALSE
    /\ Rerun("gen_prompt")
    /\ UNCHANGED <<selected_model, heap, messages, tools, include_tools,
                   enable_thinking, edited_prompt, prompt_editor>>

\* on_include_tools_change
IncludeToolsChange ==
    /\ spc = "wait"
    /\ include_tools' = ~include_tools
    /\ use_edited_prompt' = FALSE
    /\ Rerun("include_tools")
    /\ UNCHANGED <<selected_model, heap, messages, tools, enable_thinking,
                   add_generation_prompt, edited_prompt, prompt_editor>>

\* The user changes the text of the text area the last run showed.
TypeInEditor ==
    /\ spc = "wait"
    /\ prompt_editor # None
    /\ \E t \in TypedTexts \ {prompt_editor} : prompt_editor' = t
    /\ Rerun("type")
    /\ UNCHANGED <<selected_model, heap, session, edited_prompt, use_edited_prompt>>

\* The user presses "Reset to Generated Prompt", which the last run showed.
ClickReset ==
    /\ spc = "wait"
    /\ use_edited_prompt
    /\ Rerun("reset")
    /\ UNCHANGED <<selected_model, heap, session, edited_prompt, use_edited_prompt,
                   prompt_editor>>

\* The prompt render_main_area shows, of the flag, the stored prompt and the
\* generated one.
DisplayPromptAlways(flag, stored, generated) ==
    IF stored # None THEN stored ELSE generated

DisplayPrompt(flag, stored, generated) ==
    IF flag /\ stored # None THEN stored ELSE generated

\* render_main_area up to its edit tab: the prompt is generated, the prompt
\* to display chosen and its tokens counted.  An exception of count_tokens
\* ends the run.
RenderMainArea ==
    /\ spc = "run"
    /\ generated_prompt' = GeneratePrompt(heap).val
    /\ display_prompt' = DisplayPrompt(use_edited_prompt, edited_prompt,
                                       generated_prompt')
    /\ edited_prompt' = display_prompt'
    /\ \E load_ok \in BOOLEAN : CountCall(selected_model, load_ok, TRUE, MaxTokens)
    /\ spc' = IF count_outcome'.kind = "raise" THEN "wait" ELSE "edit_tab"
    /\ UNCHANGED <<PageFixed, selected_model, heap, session, use_edited_prompt,
                   prompt_editor, editor_value, event, interactions>>

\* What st.text_area returns: the value it is given when the widget is new,
\* the text the widget holds when it is given the value of the last run, and
\* either of the two when it is given another value (the library keeps the
\* widget or makes it anew).
EditorTexts ==
    IF prompt_editor = None THEN {display_prompt}
    ELSE IF editor_value = display_prompt THEN {prompt_editor}
    ELSE {prompt_editor, display_prompt}

\* render_edit_tab(display_prompt, generated_prompt)
RenderEditTab ==
    /\ spc = "edit_tab"
    /\ \E edited \in EditorTexts :
          LET changed == edited # display_prompt
              flag == changed \/ use_edited_prompt
              reset == flag /\ event = "reset"
          IN  /\ prompt_editor' = edited
              /\ editor_value' = display_prompt
              /\ use_edited_prompt' = (flag /\ ~reset)
              /\ edited_prompt' = IF reset THEN generated_prompt
                                  ELSE IF changed THEN edited ELSE edited_prompt
              /\ spc' = IF reset THEN "run" ELSE "wait"
    /\ event' = "none"
    /\ UNCHANGED <<PageFixed, kvars, selected_model, heap, session, generated_prompt,
                   display_prompt, interactions>>

NextPage ==
    \/ AddMessage
    \/ DeleteMessage
    \/ MoveMessage
    \/ ModelChange
    \/ ThinkingChange
    \/ GenPromptChange
    \/ IncludeToolsChange
    \/ TypeInEditor
    \/ ClickReset
    \/ RenderMainArea
    \/ RenderEditTab

SpecPage == InitPage /\ [][NextPage]_vars

-----------------------------------------------------------------------------
(* The conversation's specification: the session of init_session_state,    *)
(* then calls of add_message, delete_message and move_message with an      *)
(* index of the list, and manual edits of the prompt, which set the flag   *)
(* the three functions reset.                                              *)

\* The largest number of messages add_message adds in one session.
MaxAdded == 1

\* The directions move_message is called with: up and down.
Directions == {-1, 1}

InitialHeap == BuildConversation(DefaultMessages).heap

InitConversation ==
    /\ selected_model = DEFAULT_MODEL
    /\ heap = InitialHeap
    /\ messages = BuildConversation(DefaultMessages).ref
    /\ tools = DefaultTools
    /\ include_tools = FALSE
    /\ enable_thinking = TRUE
    /\ add_generation_prompt = TRUE
    /\ template_state = "renders"
    /\ rpc = "idle"
    /\ call = "none"
    /\ extra_vars = <<>>
    /\ outcome = NoOutcome
    /\ context = NoContext
    /\ prepared = None
    /\ PageIdle
    /\ last_call = NoCall
    /\ CountIdle
    /\ ClassifyIdle
    /\ HighlightIdle

\* The variables the functions of state.py leave alone.
ConversationFixed ==
    <<selected_model, cvars, hvars, kvars, session, template_state, rpc, call,
      extra_vars, outcome, context, prepared, generated_prompt, display_prompt,
      prompt_editor, editor_value, spc, event, interactions>>

\* add_message()
AddMessageCall ==
    /\ Len(heap) < Len(InitialHeap) + MaxAdded
    /\ LET m == Alloc(heap, Obj([role |-> Str(<<"user">>), content |-> Str(<<>>)]))
       IN  heap' = ListAppend(m.heap, messages, m.ref)
    /\ use_edited_prompt' = FALSE
    /\ last_call' = [op |-> "add_message", index |-> 0, direction |-> 0]
    /\ UNCHANGED <<ConversationFixed, edited_prompt>>

\* delete_message(index) without its test of the length.
DeleteMessageAlways(items, flag, index) ==
    [items |-> Pop(items, index), flag |-> FALSE]

\* What delete_message(index) makes of the list and of use_edited_prompt.
DeleteMessageEffect(items, flag, index) ==
    IF Len(items) > 1 THEN [items |-> Pop(items, index), flag |-> FALSE]
    ELSE [items |-> items, flag |-> flag]

\* delete_message(index)
DeleteMessageCall ==
    /\ \E index \in 0..(Len(Items) - 1) :
          LET d == DeleteMessageEffect(Items, use_edited_prompt, index)
          IN  /\ heap' = [heap EXCEPT ![messages.v] = Lst(d.items)]
              /\ use_edited_prompt' = d.flag
              /\ last_call' = [op |-> "delete_message", index |-> 0,
                               direction |-> 0]
    /\ UNCHANGED <<ConversationFixed, edited_prompt>>

\* What move_message(index, direction) makes of the list and of
\* use_edited_prompt.
MoveMessageEffect(items, flag, index, direction) ==
    LET new_index == index + direction
    IN  IF 0 <= new_index /\ new_index < Len(items)
        THEN [items |-> Swap(items, index, new_index), flag |-> FALSE]
        ELSE [items |-> items, flag |-> flag]

\* move_message(index, direction)
MoveMessageCall ==
    /\ \E index \in 0..(Len(Items) - 1), direction \in Directions :
          LET m == MoveMessageEffect(Items, use_edited_prompt, index, direction)
          IN  /\ heap' = [heap EXCEPT ![messages.v] = Lst(m.items)]
              /\ use_edited_prompt' = m.flag
              /\ last_call' = [op |-> "move_message", index |-> index,
                               direction |-> direction]
    /\ UNCHANGED <<ConversationFixed, edited_prompt>>

\* The branch of render_edit_tab for a text that differs from the displayed
\* prompt: the text is stored and the flag set.
ManualEdit ==
    /\ ~use_edited_prompt
    /\ \E t \in TypedTexts : edited_prompt' = t
    /\ use_edited_prompt' = TRUE
    /\ last_call' = NoCall
    /\ UNCHANGED <<ConversationFixed, heap>>

NextConversation ==
    \/ AddMessageCall
    \/ DeleteMessageCall
    \/ MoveMessageCall
    \/ ManualEdit

SpecConversation == InitConversation /\ [][NextConversation]_vars

-----------------------------------------------------------------------------
(* Properties of the classifier.                                           *)

RECURSIVE ConcatTexts(_)
ConcatTexts(segs) ==
    IF segs = <<>> THEN <<>> ELSE Head(segs).text \o ConcatTexts(Tail(segs))

\* The offset in the input at which the j-th segment starts.
SegStart(segs, j) == Len(ConcatTexts(SubSeq(segs, 1, j - 1)))

\* C1: the segments returned by tokenize_with_colors are a left-to-right
\* partition of the input: each segment is the piece of the text that starts
\* where the segments before it end, and the pieces together are the text.
C1_LosslessPartition ==
    cpc = "done" =>
        /\ ConcatTexts(result) = text
        /\ \A j \in 1..Len(result) :
               result[j].text =
                   Slice(text, SegStart(result, j),
                         SegStart(result, j) + Len(result[j].text))

\* A classification with a plain segment between two coloured ones.
C1_Witness ==
    /\ cpc = "done"
    /\ Len(result) >= 3
    /\ \E j \in 2..(Len(result) - 1) :
          /\ result[j].color = "text" /\ result[j].text # <<>>
          /\ result[j - 1].color # "text" /\ result[j + 1].color # "text"

\* The scan of the text with the rules in force, as [s, e] spans; empty when
\* there are no rules or the combined pattern does not compile.
Matches ==
    LET c == Compile(CombinedPattern(GetTokenPatterns))
    IN  IF GetTokenPatterns = <<>> \/ ~c.ok THEN <<>>
        ELSE FindIter(c.ast, text, 0, FALSE)

\* The k-th match had to advance: the match before it was empty and ended
\* where this one starts.
HadToAdvance(ms, k) ==
    k > 1 /\ ms[k - 1].e = ms[k - 1].s /\ ms[k - 1].e = ms[k].s

\* Rule r, taken alone as the scan takes it (escaped when it is literal), can
\* match at the offset of the k-th match.
CanMatchAt(r, ms, k) ==
    LET c == Compile(IF IsRegexPattern(r.pattern) THEN r.pattern
                     ELSE ReEscape(r.pattern))
    IN  c.ok /\ Candidates(c.ast, text, ms[k].s, ms[k].s, HadToAdvance(ms, k)) # <<>>

\* The segment of the result that is the k-th match has colour key.
MatchHasColor(ms, k, key) ==
    \E j \in 1..Len(result) :
        /\ SegStart(result, j) = ms[k].s
        /\ Len(result[j].text) = ms[k].e - ms[k].s
        /\ result[j].color = key

\* C2: where two rules can match at the offset of an emitted match, the
\* segment carries the category of the first-listed rule that can match there.
C2_FirstListedWins ==
    cpc = "done" =>
        \A k \in 1..Len(Matches) :
            \A a \in 1..Len(GetTokenPatterns) :
                (/\ CanMatchAt(GetTokenPatterns[a], Matches, k)
                 /\ \A z \in 1..(a - 1) : ~CanMatchAt(GetTokenPatterns[z], Matches, k)
                 /\ \E b \in (a + 1)..Len(GetTokenPatterns) :
                        CanMatchAt(GetTokenPatterns[b], Matches, k))
                => MatchHasColor(Matches, k, GetTokenPatterns[a].key)

-----------------------------------------------------------------------------
(* Properties of the renderer.                                             *)

Contains(s, piece) == \E i \in 1..Len(s) : s[i] = piece

Called(c) == rpc = "done" /\ call = c

\* C3: with a known model, generate_prompt (render_template inside its
\* try/except) returns a string whatever the conversation, the tools and the
\* flags are, also where prepare_messages raises on a malformed record.
C3_RenderReturnsString ==
    (Called("generate_prompt") /\ selected_model \in ModelKeys) =>
        /\ outcome.kind = "return"
        /\ outcome.val.t = "str"

\* prepare_messages raised on a malformed record and a string came back.
C3_Witness ==
    /\ Called("generate_prompt")
    /\ selected_model \in ModelKeys
    /\ template_state = "renders"
    /\ outcome.kind = "return"
    /\ outcome.val.v[1] = "Error generating prompt: "
    /\ Contains(outcome.val.v, "' object has no attribute 'copy'")

\* C4: with a model identifier that is not in MODELS, render_template raises
\* ValueError with a message that holds the identifier, and generate_prompt
\* returns a string that says so and holds the identifier.
C4_UnknownModelString ==
    (rpc = "done" /\ selected_model \notin ModelKeys) =>
        /\ call = "generate_prompt" =>
              /\ outcome.kind = "return"
              /\ outcome.val.t = "str"
              /\ outcome.val.v[1] = "Error generating prompt: "
              /\ Contains(outcome.val.v, selected_model)
        /\ call = "render_template" =>
              /\ outcome.kind = "raise"
              /\ outcome.exc.type = "ValueError"
              /\ Contains(outcome.exc.msg, selected_model)

C4_Witness ==
    /\ Called("generate_prompt")
    /\ selected_model = UnknownModel
    /\ outcome.val = Str(<<"Error generating prompt: ", "Unknown model: ", UnknownModel>>)

\* The messages given and the messages prepare_messages returned.
InMsgs == heap[messages.v].v

OutMsgs == heap[prepared.v].v

\* The positions <<i, j>> of the tool calls of the prepared messages that have
\* a function dict.
PreparedCalls ==
    { ij \in (1..Len(OutMsgs)) \X (1..3) :
        LET tcs == Get(heap, OutMsgs[ij[1]], "tool_calls")
        IN  /\ IsListRef(heap, tcs)
            /\ ij[2] <= Len(heap[tcs.v].v)
            /\ HasKey(heap, heap[tcs.v].v[ij[2]], "function") }

ToolCallAt(msgs, ij) == heap[GetItem(heap, msgs[ij[1]], "tool_calls").v].v[ij[2]]

\* The arguments of the tool call at <<i, j>>, before and after.
ArgIn(ij) == Get(heap, GetItem(heap, ToolCallAt(InMsgs, ij), "function"), "arguments")

ArgOut(ij) == Get(heap, GetItem(heap, ToolCallAt(OutMsgs, ij), "function"), "arguments")

\* C5: after prepare_messages the arguments of every tool call are a mapping,
\* whether they were given as a string or as structured data.
C5_ArgumentsAreMappings ==
    (rpc = "done" /\ prepared.t = "ref") =>
        \A ij \in PreparedCalls :
            ArgIn(ij).t \in {"str", "dict"} => ArgOut(ij).t = "dict"

\* The value x with the objects it refers to in place of the references.
RECURSIVE Snapshot(_, _)
Snapshot(h, x) ==
    IF x.t # "ref" THEN x
    ELSE IF h[x.v].t = "obj"
         THEN Obj([k \in DOMAIN h[x.v].v |-> Snapshot(h, h[x.v].v[k])])
         ELSE Lst([i \in 1..Len(h[x.v].v) |-> Snapshot(h, h[x.v].v[i])])

Unparsable(x) == x.t = "str" /\ ~JsonLoads(x.v).ok

\* The heap with "{}" in place of every arguments string that does not parse.
Repaired(h) ==
    [a \in 1..Len(h) |->
        IF h[a].t = "obj" /\ "arguments" \in DOMAIN h[a].v
           /\ Unparsable(h[a].v["arguments"])
        THEN Obj([h[a].v EXCEPT !["arguments"] = Str(<<"{", "}">>)])
        ELSE h[a]]

\* C6: arguments that do not parse become the empty mapping and a serialized
\* mapping becomes the mapping; prepare_messages ends, and normalizes every
\* message and tool call, as it does on the conversation that has "{}" in
\* place of the strings that do not parse.
C6_ParseFailureIsLocal ==
    /\ (rpc = "done" /\ prepared.t = "ref") =>
          \A ij \in PreparedCalls :
              /\ Unparsable(ArgIn(ij)) => ArgOut(ij) = Dict(<<>>)
              /\ ArgIn(ij) = Str(ArgMapping) => ArgOut(ij) = QueryDict
    /\ Called("prepare_messages") =>
          LET r == PrepareMessages(Repaired(heap), messages)
          IN  /\ r.ok = (outcome.kind = "return")
              /\ r.exc = outcome.exc
              /\ r.ok => Snapshot(r.heap, r.val) = Snapshot(heap, prepared)

\* A conversation with arguments that do not parse and arguments that do.
C6_Witness ==
    /\ Called("prepare_messages")
    /\ prepared.t = "ref"
    /\ \E ij \in PreparedCalls : Unparsable(ArgIn(ij)) /\ ArgOut(ij) = Dict(<<>>)
    /\ \E ij \in PreparedCalls : ArgIn(ij) = Str(ArgMapping) /\ ArgOut(ij) = QueryDict

\* C7: no call changes an object that exists when it starts, nor the session's
\* list of messages: the message list, the message, tool-call and function
\* dicts given to prepare_messages and generate_prompt stay as they were.
C7_InputNotMutated ==
    [][/\ messages' = messages
       /\ Len(heap') >= Len(heap)
       /\ \A a \in 1..Len(heap) : heap'[a] = heap[a]]_vars

\* The normalizer parsed arguments in its copy; the input still has the string.
C7_Witness ==
    /\ Called("prepare_messages")
    /\ prepared.t = "ref"
    /\ \E ij \in PreparedCalls : ArgIn(ij) = Str(ArgMapping) /\ ArgOut(ij) = QueryDict

\* The tool list the call was given: generate_prompt passes the session's
\* tools when include_tools is set.
SuppliedTools ==
    IF call = "generate_prompt" /\ ~include_tools THEN None ELSE tools

IsNonEmptyList(x) == x.t = "list" /\ x.v # <<>>

\* C8: the context's tools are None when the tool list is absent or empty or
\* include_tools is off, never an empty list, and the given list otherwise.
C8_ToolsAbsentOrGiven ==
    (rpc = "done" /\ context.t = "ctx") =>
        /\ context.v.tools # List(<<>>)
        /\ IsNonEmptyList(SuppliedTools) => context.v.tools = SuppliedTools
        /\ ~IsNonEmptyList(SuppliedTools) => context.v.tools = None

\* An empty tool list with include_tools off.
C8_Witness ==
    /\ Called("generate_prompt")
    /\ context.t = "ctx"
    /\ tools = List(<<>>)
    /\ ~include_tools
    /\ context.v.tools = None

\* C9: in the context a flag the caller gave has the caller's value, a
\* variable only the model's template_vars name has its default, and
\* messages, tools, add_generation_prompt and the bos/eos tokens are the
\* prepared messages, the tools of C8, the flag given and the registry's tokens.
C9_CallerFlagsWin ==
    (rpc = "done" /\ context.t = "ctx") =>
        LET config == MODELS[selected_model]
            ctx == context.v
        IN  /\ \A k \in DOMAIN extra_vars : ctx[k] = extra_vars[k]
            /\ \A k \in (DOMAIN config.template_vars) \ (DOMAIN extra_vars) :
                  ctx[k] = config.template_vars[k]
            /\ ctx.messages = prepared
            /\ ctx.tools \in {None, SuppliedTools}
            /\ ctx.add_generation_prompt = add_generation_prompt
            /\ ctx.bos_token = config.bos_token
            /\ ctx.eos_token = config.eos_token

\* The caller turns off a flag the model's defaults turn on, and leaves
\* another model's default alone.
C9_Witness ==
    /\ Called("render_template")
    /\ context.t = "ctx"
    /\ \/ /\ selected_model = "deepseek-v3.1"
          /\ extra_vars = [thinking |-> FALSE]
          /\ context.v.thinking = FALSE
       \/ /\ selected_model = "qwen3"
          /\ extra_vars = [thinking |-> FALSE]
          /\ context.v.enable_thinking = TRUE

\* The message of the failure the template directory is set up for.
FailureMessage ==
    CASE template_state = "missing" -> MODELS[selected_model].template_file
      [] template_state = "syntax" -> "unexpected end of template"
      [] template_state = "fails" -> "'dict object' has no attribute 'x'"
      [] OTHER -> "System message must be first"

LoadFails == template_state \in {"missing", "syntax"}

\* The template was executed and failed, by itself or through raise_exception.
ExecutionFails ==
    /\ context.t = "ctx"
    /\ \/ template_state = "fails"
       \/ template_state = "strict" /\ ~SystemFirst(heap, context.v)

\* C10: where the template does not load or its execution fails, also through
\* raise_exception, render_template returns a string that says which of the
\* two happened and holds the failure's message.
C10_FailureBecomesString ==
    (rpc = "done" /\ call \in {"generate_prompt", "render_template"}
     /\ selected_model \in ModelKeys /\ (LoadFails \/ ExecutionFails)) =>
        /\ outcome.kind = "return"
        /\ outcome.val.t = "str"
        /\ outcome.val.v[1] = (IF LoadFails THEN "Error loading template "
                               ELSE "Error rendering template: ")
        /\ Contains(outcome.val.v, FailureMessage)

\* raise_exception was called from the template.
C10_Witness ==
    /\ Called("render_template")
    /\ template_state = "strict"
    /\ outcome.val = Str(<<"Error rendering template: ", "System message must be first">>)

-----------------------------------------------------------------------------
(* Further properties of the classifier.                                   *)

\* The combined pattern of the rules in force does not compile.
CombinedFails ==
    GetTokenPatterns # <<>> /\ ~Compile(CombinedPattern(GetTokenPatterns)).ok

\* C12: with an unknown model, with no rules, or with rules whose combined
\* pattern does not compile, tokenize_with_colors returns the whole input as
\* one plain segment and nothing else.
C12_DegradesToOnePlainSegment ==
    (cpc = "done"
     /\ (selected_model \notin ModelKeys \/ token_patterns = <<>> \/ CombinedFails))
        => result = <<Seg(text, "text")>>

\* The first rule matches the text and the second rule breaks the combined
\* pattern.
C12_Witness ==
    /\ cpc = "done"
    /\ selected_model \in ModelKeys
    /\ Len(token_patterns) = 2
    /\ token_patterns[1].pattern = <<"h">>
    /\ CombinedFails
    /\ text = <<"h", "i", "h">>
    /\ result = <<Seg(text, "text")>>

\* The rule the scan takes for the k-th match: the first that can match there.
Selected(ms, k, a) ==
    /\ CanMatchAt(GetTokenPatterns[a], ms, k)
    /\ \A z \in 1..(a - 1) : ~CanMatchAt(GetTokenPatterns[z], ms, k)

SpanText(ms, k) == Slice(text, ms[k].s, ms[k].e)

\* C16: a match the scan takes for a rule without metacharacters is an exact
\* occurrence of the rule's text and its segment has the rule's category.
C16_LiteralKeepsCategory ==
    cpc = "done" =>
        \A k \in 1..Len(Matches) : \A a \in 1..Len(GetTokenPatterns) :
            (Selected(Matches, k, a) /\ ~IsRegexPattern(GetTokenPatterns[a].pattern))
            => /\ SpanText(Matches, k) = GetTokenPatterns[a].pattern
               /\ MatchHasColor(Matches, k, GetTokenPatterns[a].key)

\* The test of rule a against a span: it matches, it does not, or re.error.
RuleTest(a, span) == FullMatch(GetTokenPatterns[a].pattern, span)

\* Category resolution for the span gets to rule a, and the test raises.
FailsAt(a, span) ==
    /\ RuleTest(a, span) = "error"
    /\ \A z \in 1..(a - 1) :
          /\ RuleTest(z, span) # "match"
          /\ GetTokenPatterns[z].pattern # span

\* C17 as claimed: a span for which the test of a rule raises is plain text.
C17_FailedSpanIsPlain ==
    cpc = "done" =>
        \A k \in 1..Len(Matches) :
            (\E a \in 1..Len(GetTokenPatterns) : FailsAt(a, SpanText(Matches, k)))
            => MatchHasColor(Matches, k, "text")

\* Rule a settles the category of the span: it matches the span, or its test
\* raises and its text is the span.
Settles(a, span) ==
    LET r == RuleTest(a, span)
    IN  \/ r = "match"
        \/ r = "error" /\ GetTokenPatterns[a].pattern = span

\* C17, amended: a rule whose test raises gives the span its category when its
\* text is the span, and is passed over otherwise; every match of the scan,
\* with or without such a failure, is a segment with the category of the first
\* rule that settles it, and is plain text when no rule does.
C17_FailureIsLocal ==
    cpc = "done" =>
        LET ms == Matches
        IN  \A k \in 1..Len(ms) :
                LET span == SpanText(ms, k)
                    S == { a \in 1..Len(GetTokenPatterns) : Settles(a, span) }
                IN  IF S = {} THEN MatchHasColor(ms, k, "text")
                    ELSE MatchHasColor(ms, k,
                             GetTokenPatterns[CHOOSE a \in S : \A b \in S : a <= b].key)

\* The test of the first rule raises for both spans: the first span has the
\* category of the second rule, the second span stays plain text.
C17_Witness ==
    /\ cpc = "done"
    /\ Len(Matches) = 2
    /\ FailsAt(1, SpanText(Matches, 1))
    /\ FailsAt(1, SpanText(Matches, 2))
    /\ result = <<Seg(<<"h">>, "role"), Seg(<<"i">>, "text")>>

-----------------------------------------------------------------------------
(* Properties of the highlighter.                                          *)

BothDone == cpc = "done" /\ hpc = "done"

\* The markup that wraps each non-plain segment of segs in a span of its
\* category and escapes every segment's text.
RECURSIVE MarkupOf(_)
MarkupOf(segs) ==
    IF segs = <<>> THEN <<>>
    ELSE (IF Head(segs).color = "text" THEN escape_html(Head(segs).text)
          ELSE OpenTag(CssClass(Head(segs).color)) \o escape_html(Head(segs).text)
               \o SPAN_CLOSE)
         \o MarkupOf(Tail(segs))

\* C13: highlight_prompt and tokenize_with_colors agree: the markup is the
\* escaped text with exactly the non-plain segments of tokenize_with_colors
\* wrapped, each in a span of its category.
C13_MarkupAgreesWithSegments ==
    BothDone => markup = MarkupOf(result)

IsScenario ==
    /\ selected_model \in ModelKeys
    /\ token_patterns = ScenarioRules
    /\ text = ScenarioText

\* C15 as claimed: the scenario gives five segments, </role> with the role
\* category.
C15_ScenarioFiveSegments ==
    (cpc = "done" /\ IsScenario) =>
        /\ result = <<Seg(SCN_BOS, "bos_eos"), Seg(SCN_ROLE, "role"),
                      Seg(<<"h", "i">>, "text"),
                      Seg(<<"<", "/", "r", "o", "l", "e", ">">>, "role"),
                      Seg(SCN_EOS, "bos_eos")>>
        /\ ConcatTexts(result) = text

\* C15, amended: the scenario gives four segments, boundary("<s>"),
\* role("<role>"), plain("hi</role>"), boundary("</s>"), and their
\* concatenation is the input.
C15_ScenarioFourSegments ==
    (cpc = "done" /\ IsScenario) =>
        /\ result = <<Seg(SCN_BOS, "bos_eos"), Seg(SCN_ROLE, "role"),
                      Seg(<<"h", "i", "<", "/", "r", "o", "l", "e", ">">>, "text"),
                      Seg(SCN_EOS, "bos_eos")>>
        /\ ConcatTexts(result) = text

C15_Witness ==
    /\ cpc = "done"
    /\ IsScenario
    /\ Len(result) = 4
    /\ result[2] = Seg(SCN_ROLE, "role")
    /\ result[3].color = "text"

StartsWith(s, i, piece) ==
    i + Len(piece) - 1 <= Len(s) /\ SubSeq(s, i, i + Len(piece) - 1) = piece

\* The positions of s at which an opening tag of a category starts, and those
\* at which a closing tag starts.
OpenTagsAt(s) ==
    { i \in 1..Len(s) :
        \E c \in {TOKEN_BOS, TOKEN_ROLE, TOKEN_THINK, TOKEN_DSML, TOKEN_FUNC} :
            StartsWith(s, i, OpenTag(c)) }

CloseTagsAt(s) == { i \in 1..Len(s) : StartsWith(s, i, SPAN_CLOSE) }

\* The tag that starts at i ends before j.
TagLength(s, i) ==
    IF i \in CloseTagsAt(s) THEN Len(SPAN_CLOSE)
    ELSE Len(OpenTag(CHOOSE c \in {TOKEN_BOS, TOKEN_ROLE, TOKEN_THINK, TOKEN_DSML,
                                    TOKEN_FUNC} : StartsWith(s, i, OpenTag(c))))

\* The positions of s outside every tag.
OutsideTags(s) ==
    { i \in 1..Len(s) :
        \A j \in OpenTagsAt(s) \cup CloseTagsAt(s) : i < j \/ i >= j + TagLength(s, j) }

\* C18: the markup is escape_html(text) with spans put in: every "<" opens a
\* tag of the markup, an opening tag is followed by a closing tag and a
\* closing tag preceded by an opening one with no tag between them (spans are
\* not nested and none is put inside a tag), and without the tags the markup
\* is escape_html(text).
C18_SpansWellFormed ==
    hpc = "done" =>
        LET opens == OpenTagsAt(markup)
            closes == CloseTagsAt(markup)
            tags == opens \cup closes
            out == OutsideTags(markup)
        IN  /\ \A i \in 1..Len(markup) : markup[i] = "<" => i \in tags
            /\ \A i \in opens : \E j \in closes :
                  j > i /\ \A m \in tags : ~(i < m /\ m < j)
            /\ \A j \in closes : \E i \in opens :
                  i < j /\ \A m \in tags : ~(i < m /\ m < j)
            /\ Cardinality(out) = Len(escape_html(text))
            /\ \A i \in out :
                  markup[i] = escape_html(text)[Cardinality({ m \in out : m <= i })]

-----------------------------------------------------------------------------
(* Properties of the token counter.                                        *)

\* C14: count_tokens never raises; it returns 0 when the model key is
\* unknown, when the library or the tokenizer does not load and when encode
\* fails, and a non-negative integer otherwise.
C14_CountNeverRaises ==
    /\ count_outcome.kind # "raise"
    /\ count_outcome.kind = "return" =>
          /\ count_outcome.val \in Nat
          /\ count_outcome.failure # "" => count_outcome.val = 0

\* C19: once the body of load_tokenizer has run for a tokenizer id it does
\* not run for that id again: the cache holds its result, no later call
\* changes it, and a call that finds None cached returns 0.
C19_LoaderRunsOncePerId ==
    [][\A m \in ModelKeys :
          loader_runs[TokenizerId[m]] >= 1 =>
              /\ loader_runs'[TokenizerId[m]] = loader_runs[TokenizerId[m]]
              /\ tokenizer_cache[TokenizerId[m]] # "absent"
              /\ tokenizer_cache'[TokenizerId[m]] = tokenizer_cache[TokenizerId[m]]
              /\ (count_outcome'.model_key = m
                  /\ tokenizer_cache[TokenizerId[m]] = "none")
                     => (count_outcome'.kind = "return" /\ count_outcome'.val = 0)]_vars

-----------------------------------------------------------------------------
(* Properties of the page.                                                 *)

\* The interactions that change the conversation or a setting.
StateEdits ==
    {"add_message", "delete_message", "move_message", "model", "thinking",
     "gen_prompt", "include_tools"}

PageState == <<selected_model, heap, session>>

-----------------------------------------------------------------------------
(* Properties of the conversation.                                         *)

\* How often x occurs in the sequence items.
Occurrences(items, x) == Cardinality({ k \in 1..Len(items) : items[k] = x })

SameMessages(a, b) ==
    /\ Len(a) = Len(b)
    /\ \A k \in 1..Len(a) : Occurrences(a, a[k]) = Occurrences(b, a[k])

\* The step is a call of delete_message or move_message that finds nothing
\* to do: one message left, or a new position outside the list.
NothingToDo ==
    \/ last_call'.op = "delete_message" /\ Len(Items) = 1
    \/ /\ last_call'.op = "move_message"
       /\ ~(0 <= last_call'.index + last_call'.direction
            /\ last_call'.index + last_call'.direction < Len(Items))

\* C21: the conversation is never empty; delete_message on one message and
\* move_message to a position outside the list leave the messages and
\* use_edited_prompt as they are; any other move_message exchanges the
\* messages at the two positions and changes nothing else of the list.
C21_ConversationNeverEmpty ==
    /\ Len(Items) >= 1
    /\ [][/\ Len(heap'[messages'.v].v) >= 1
          /\ NothingToDo =>
                /\ heap'[messages'.v].v = Items
                /\ use_edited_prompt' = use_edited_prompt
          /\ (last_call'.op = "move_message" /\ ~NothingToDo) =>
                /\ SameMessages(heap'[messages'.v].v, Items)
                /\ \A k \in 1..Len(Items) :
                      heap'[messages'.v].v[k] =
                         IF k = last_call'.index + 1
                         THEN Items[last_call'.index + last_call'.direction + 1]
                         ELSE IF k = last_call'.index + last_call'.direction + 1
                         THEN Items[last_call'.index + 1]
                         ELSE Items[k]]_vars

\* delete_message was called on a conversation of one message after a manual
\* edit: the message and the flag are still there.
C21_Witness ==
    /\ last_call.op = "delete_message"
    /\ Len(Items) = 1
    /\ use_edited_prompt

=============================================================================
